---- MODULE Spec2Model ----
(***************************************************************************)
(* A model of the environmental monitoring loop of gustyweather:           *)
(*   backend/services/monitoring.service.ts  (MonitoringService)           *)
(*   backend/services/kitronik.service.ts    (KitronikService outputs)     *)
(*   backend/utils/errorHandling.ts          (retry wrappers)              *)
(*   src/services/kitronik.service.ts        (client withErrorHandling)    *)
(*                                                                         *)
(* JavaScript runs one callback at a time; a callback gives up control     *)
(* only at an await.  One action of the model is therefore one run of the  *)
(* code between two awaits: the resumption of an awaited hardware call     *)
(* with its outcome, followed by all the synchronous code up to the next   *)
(* await.  Awaits of hardware calls inside one actuator method that write  *)
(* no state between them are taken as one await of that method.            *)
(***************************************************************************)
EXTENDS Integers, Sequences, FiniteSets, TLC

\* ------------------------------------------------------------------ bounds
\* Number of interval callbacks that can be in flight together.
MaxTicks == 2
\* Largest value of the readings counter that is followed.
MaxReadings == 2
\* Number of timers one behaviour creates (scheduled, or about to be
\* scheduled by a startMonitoring call that is waiting).
MaxTimers == 2
\* Number of stopMonitoring calls that can wait for cleanup() together.
MaxPendingStops == 1

Slots == 1..MaxTicks

\* ------------------------------------------------------ program constants
\* kitronik.service.ts: highPowerState has 4 entries, servoPositions has 2.
NumHighPower == 4
NumServos == 2
\* monitoring.service.ts:243  Math.round((data.humidity / 100) * 180)
ServoFullScale == 180
\* kitronik.service.ts:442  angle < 0 || angle > 180
ServoMaxAngle == 180

\* Arguments of startMonitoring(intervalMs = 60000).  Time is not part of
\* the model (a timer may fire whenever it is scheduled), so the default
\* stands for every interval.
Intervals == {60000}

\* ---------------------------------------------------------------- readings
\* What getEnvironmentalData can resolve with (temperature, humidity, air
\* quality index are the fields the loop reads).
Reading(t, h, p, a) ==
    [temperature |-> t, humidity |-> h, pressure |-> p, airQualityIndex |-> a]

NoData == Reading(0, 0, 0, 0)

Readings ==
    { Reading(20, 50, 1000, 80),    \* inside every range
      Reading(35, 50, 1000, 80),    \* hot
      Reading(20, 80, 1000, 20) }   \* humid, hazardous air

\* monitoring.service.ts:33-41, the thresholds set by the constructor.
DefaultThresholds ==
    [ temperature |-> [min |-> 15, max |-> 30],
      humidity    |-> [min |-> 30, max |-> 70],
      pressure    |-> [min |-> 980, max |-> 1020],
      airQuality  |-> [poor |-> 60, hazardous |-> 30] ]

\* Arguments of updateThresholds (Partial<MonitoringThresholds>).
ThresholdUpdates ==
    { [temperature |-> [min |-> 15, max |-> 40]] }

\* ------------------------------------------------------------------- state
VARIABLES
    monitoringInterval,  \* this.monitoringInterval: 0 is null, else a timer id
    timers,              \* the interval timers scheduled in the event loop
    timerSeq,            \* how many timers setInterval has created so far
    thresholds,          \* this.thresholds
    alerts,              \* this.alerts
    outputStatus,        \* KitronikService.outputStatus
    readingsTotal,       \* Counter kitronik_readings_total
    readingErrors,       \* Counter kitronik_reading_errors_total
    listeners,           \* the EventEmitter's listeners, by event
    ticks,               \* the interval callbacks in flight, by slot
    pendingStarts,       \* startMonitoring calls awaiting validateSensorConnection
    pendingStops,        \* stopMonitoring calls awaiting cleanup()
    obs                  \* what the last step did (events emitted, outcome)

monVars == << monitoringInterval, timers, timerSeq, thresholds, alerts, outputStatus,
              readingsTotal, readingErrors, listeners, ticks,
              pendingStarts, pendingStops, obs >>

\* The state of one run of a retry wrapper.
VARIABLES
    rWrapper,     \* the wrapper that runs
    rMaxRetries,  \* its maxRetries
    rDelayMs,     \* its delayMs
    rShouldRetry, \* its shouldRetry option
    rPc,          \* "idle", "calling" (await operation()), "waiting" (the backoff), "done"
    rAttempt,     \* the loop variable attempt
    rCalls,       \* invocations of the operation so far
    rWaits,       \* the backoff delays waited so far
    rLastError,   \* lastError
    rFatal,       \* an attempt failed with an error the policy does not retry
    rResult       \* how the run ended

retryVars == << rWrapper, rMaxRetries, rDelayMs, rShouldRetry, rPc, rAttempt,
                rCalls, rWaits, rLastError, rFatal, rResult >>

\* The state of the rate limiter's store and of the rateLimit calls in flight.
VARIABLES
    rlStore,      \* rateLimits/<key>: the timestamps pushed, in push order
    rlClock,      \* Date.now()
    rlLimit,      \* the limit the callers pass
    rlWindow,     \* the windowMs the callers pass
    rlCalls,      \* the rateLimit calls, by slot
    rlLast        \* the call that returned last

rateVars == << rlStore, rlClock, rlLimit, rlWindow, rlCalls, rlLast >>

\* One evaluation of a reading against the held thresholds.
VARIABLES
    evReading,    \* the reading evaluated last
    evAlerts      \* what checkConditions returned for it

evalVars == << evReading, evAlerts >>

\* What a caller holds after getAlerts() and getOutputStatus().
VARIABLES
    cpAlerts,     \* the array getAlerts returned: per element the core alert
                  \* object it refers to (its index in this.alerts), 0 for an
                  \* object of the caller's own
    cpStatus,     \* the object getOutputStatus returned: its own two flags;
                  \* its arrays are the core's array objects
    cpOrigAlerts, \* this.alerts as the core left it
    cpOrigStatus  \* this.outputStatus as the core left it

copyVars == << cpAlerts, cpStatus, cpOrigAlerts, cpOrigStatus >>

\* The LED strip and the last setLEDPattern call.
VARIABLES
    ledPixels,    \* the colour each pixel shows
    ledAlerts,    \* the alerts of the last call
    ledResult     \* "none", "ok" or "failed": how the last call ended

ledVars == << ledPixels, ledAlerts, ledResult >>

\* Runs of updateOutputs in which every actuator call succeeds.
VARIABLES
    rcState,      \* KitronikService.outputStatus as these runs leave it
    rcPrev,       \* outputStatus as the last run found it
    rcInput,      \* the (alerts, data) arguments of the last run
    rcRuns        \* runs with these arguments in a row (2 stands for more)

rcVars == << rcState, rcPrev, rcInput, rcRuns >>

\* The session records and the requests that read and write them.
VARIABLES
    ssStore,      \* sessions/<token> in the database
    ssClock,      \* Date.now()
    ssCalls,      \* the validateSession calls, by slot
    ssDel,        \* the request that deletes sessions, if one is in flight
    ssRemoved,    \* the tokens whose record has been deleted at some time
    ssLast        \* the last response of validateSession

sessVars == << ssStore, ssClock, ssCalls, ssDel, ssRemoved, ssLast >>

\* What the operations of one component leave alone: the other components.
notMon == << retryVars, rateVars, evalVars, copyVars, ledVars, rcVars, sessVars >>
notRetry == << monVars, rateVars, evalVars, copyVars, ledVars, rcVars, sessVars >>
notRate == << monVars, retryVars, evalVars, copyVars, ledVars, rcVars, sessVars >>
notEval == << retryVars, rateVars, copyVars, ledVars, rcVars, sessVars >>
notCopy == << retryVars, rateVars, evalVars, ledVars, rcVars, sessVars >>
notLed == << monVars, retryVars, rateVars, evalVars, copyVars, rcVars, sessVars >>
notRc == << monVars, retryVars, rateVars, evalVars, copyVars, ledVars, sessVars >>
notSess == << monVars, retryVars, rateVars, evalVars, copyVars, ledVars, rcVars >>

\* ------------------------------------------------------------ observations
NoObs ==
    [ result  |-> "none",   \* outcome of the awaited call / of the operation
      emits   |-> << >>,    \* events delivered to listeners, in order
      escaped |-> FALSE,    \* an exception left the timer callback
      metrics |-> FALSE ]   \* updateMetrics ran

\* A tick in flight: the await it is suspended at (pc), the reading and the
\* alerts it holds in its local variables, and the value the field of the
\* actuator it is calling had when the call was issued (before).  While the
\* tick awaits its read, started records what this.thresholds was when the
\* timer fired; the code keeps no such copy, and nothing reads the field.
FreeTick == [pc |-> "free", data |-> NoData, alerts |-> << >>, before |-> 0,
             started |-> DefaultThresholds]

Flag(b) == IF b THEN 1 ELSE 0

\* The field of outputStatus that the actuator method awaited at pc writes.
FieldOf(os, pc) ==
    CASE pc = "display" -> Flag(os.displayActive)
      [] pc \in {"leds", "ledsClear"} -> Flag(os.ledsActive)
      [] pc = "relay" -> Flag(os.highPowerState[1])
      [] pc = "servo" -> os.servoPositions[1]
      [] OTHER -> 0


InFlight == {t \in Slots : ticks[t].pc # "free"}

\* ------------------------------------------------------ threshold evaluator
Alert(type, level, value) == [type |-> type, level |-> level, value |-> value]

TemperatureAlerts(data, th) ==
    IF data.temperature < th.temperature.min
      THEN << Alert("temperature", "warning", data.temperature) >>
    ELSE IF data.temperature > th.temperature.max
      THEN << Alert("temperature", "danger", data.temperature) >>
    ELSE << >>

HumidityAlerts(data, th) ==
    IF data.humidity < th.humidity.min \/ data.humidity > th.humidity.max
      THEN << Alert("humidity", "warning", data.humidity) >>
    ELSE << >>

\* An evaluator that tests the poor threshold before the hazardous one.
AirQualityAlertsPoorFirst(data, th) ==
    IF data.airQualityIndex < th.airQuality.poor
      THEN << Alert("airQuality", "warning", data.airQualityIndex) >>
    ELSE IF data.airQualityIndex < th.airQuality.hazardous
      THEN << Alert("airQuality", "danger", data.airQualityIndex) >>
    ELSE << >>

AirQualityAlerts(data, th) ==
    IF data.airQualityIndex < th.airQuality.hazardous
      THEN << Alert("airQuality", "danger", data.airQualityIndex) >>
    ELSE IF data.airQualityIndex < th.airQuality.poor
      THEN << Alert("airQuality", "warning", data.airQualityIndex) >>
    ELSE << >>

checkConditions(data, th) ==
    TemperatureAlerts(data, th) \o HumidityAlerts(data, th) \o AirQualityAlerts(data, th)

HasAirQualityAlert(as) == \E i \in 1..Len(as) : as[i].type = "airQuality"

\* Math.round((data.humidity / 100) * 180) for a humidity >= 0.
humidityAngle(data) == (data.humidity * ServoFullScale * 2 + 100) \div 200

\* setServoPosition's argument check (index 0 is always in range).
ValidServoAngle(angle) == angle >= 0 /\ angle <= ServoMaxAngle

\* ----------------------------------------------------------- event emitter
\* EventEmitter.emit: listeners run synchronously inside emit, an exception of
\* a listener leaves emit, and emit('error') without a listener throws its
\* argument.
EmitThrows(ev) ==
    \/ listeners[ev] = "throws"
    \/ ev = "error" /\ listeners[ev] = "none"

Delivered(ev) == IF listeners[ev] = "none" THEN << >> ELSE << ev >>

ListenerConfigs ==
    { [reading |-> "ok",   alerts |-> "ok",   error |-> "ok"],
      [reading |-> "ok",   alerts |-> "none", error |-> "none"],
      [reading |-> "none", alerts |-> "ok",   error |-> "throws"] }

\* -------------------------------------------------------------------- init
InitialOutputStatus ==
    [ displayActive  |-> FALSE,
      ledsActive     |-> FALSE,
      highPowerState |-> [i \in 1..NumHighPower |-> FALSE],
      servoPositions |-> [i \in 1..NumServos |-> 0] ]

MonInit ==
    /\ monitoringInterval = 0
    /\ timers = {}
    /\ timerSeq = 0
    /\ thresholds = DefaultThresholds
    /\ alerts = << >>
    /\ outputStatus = InitialOutputStatus
    /\ readingsTotal = 0
    /\ readingErrors = 0
    /\ listeners \in ListenerConfigs
    /\ ticks = [t \in Slots |-> FreeTick]
    /\ pendingStarts = << >>
    /\ pendingStops = 0
    /\ obs = NoObs

\* ------------------------------------------------ KitronikService outputs
\* What each actuator method leaves in outputStatus when its hardware calls
\* succeeded (ok) or one of them threw (~ok).  lastUpdate is a wall-clock
\* string and is left out.

\* updateDisplay: line 322 on success, line 326 in the catch block.
updateDisplayStatus(os, ok) == [os EXCEPT !.displayActive = ok]

\* setLEDPattern: line 395 on success, line 399 in the catch block.
setLEDPatternStatus(os, ok) == [os EXCEPT !.ledsActive = ok]

\* A setHighPowerOutput that records the commanded state before it knows
\* whether the hardware call succeeded.
setHighPowerOutputStatusEager(os, ok, index, state) ==
    [os EXCEPT !.highPowerState[index + 1] = state]

\* setHighPowerOutput(index, state): line 429 on success, nothing on failure.
setHighPowerOutputStatus(os, ok, index, state) ==
    IF ok THEN [os EXCEPT !.highPowerState[index + 1] = state] ELSE os

\* A setServoPosition that moves the servo by the angle instead of to it.
setServoPositionStatusRelative(os, ok, index, angle) ==
    IF ok THEN [os EXCEPT !.servoPositions[index + 1] =
                              IF @ + angle > ServoMaxAngle THEN ServoMaxAngle ELSE @ + angle]
    ELSE os

\* setServoPosition(index, angle): line 447 on success, nothing on failure.
setServoPositionStatus(os, ok, index, angle) ==
    IF ok THEN [os EXCEPT !.servoPositions[index + 1] = angle] ELSE os

\* cleanup(): lines 469-475 after the hardware calls, nothing when one threw.
cleanupStatus(os, ok) == IF ok THEN InitialOutputStatus ELSE os

\* ------------------------------------------------------------ tick helpers
LowestFree == CHOOSE t \in Slots : ticks[t].pc = "free" /\ \A u \in Slots : u < t => ticks[u].pc # "free"

\* The tick issues the next actuator call and suspends at it.
Goto(t, pc) == [ticks EXCEPT ![t].pc = pc, ![t].before = FieldOf(outputStatus', pc)]

\* updateMetrics(data), lines 250-258: the readings counter is incremented
\* and the four gauges are set to the reading (obs.metrics records that it ran).
updateMetrics(data) == readingsTotal' = readingsTotal + 1

noMetrics == UNCHANGED << readingsTotal, readingErrors >>

\* The catch block of the interval callback (lines 150-152) ends the tick:
\* emit('error', ...) either returns or throws out of the async callback.
callbackCatch(t, result, before) ==
    /\ ticks' = [ticks EXCEPT ![t] = FreeTick]
    /\ obs' = [ NoObs EXCEPT !.result = result,
                             !.emits = before \o Delivered("error"),
                             !.escaped = EmitThrows("error") ]
    /\ noMetrics

\* An actuator call of updateOutputs rejected: the catch block of
\* updateOutputs (lines 245-247) emits 'error'.  If that emit returns,
\* updateOutputs returns and the callback goes on to updateMetrics (line 149);
\* if it throws, updateOutputs rejects and the callback's own catch block runs.
updateOutputsCatch(t, result) ==
    IF EmitThrows("error")
      THEN callbackCatch(t, result, Delivered("error"))
      ELSE /\ ticks' = [ticks EXCEPT ![t] = FreeTick]
           /\ obs' = [ NoObs EXCEPT !.result = result, !.emits = << "error" >>,
                                    !.metrics = TRUE ]
           /\ updateMetrics(ticks[t].data)
           /\ UNCHANGED readingErrors

\* ----------------------------------------------------------------- the tick
\* setInterval fires: the callback starts and suspends at
\* await this.kitronikService.getEnvironmentalData() (line 135).
TimerFire(tm) ==
    /\ tm \in timers
    /\ InFlight # Slots
    /\ readingsTotal + Cardinality(InFlight) < MaxReadings
    /\ ticks' = [ticks EXCEPT ![LowestFree] = [FreeTick EXCEPT !.pc = "read", !.started = thresholds]]
    /\ obs' = [NoObs EXCEPT !.result = "fired"]
    /\ UNCHANGED << monitoringInterval, timers, timerSeq, thresholds, alerts, outputStatus,
                    readingsTotal, readingErrors, listeners,
                    pendingStarts, pendingStops >>
    /\ UNCHANGED notMon

\* A catch block that also forgets the last alerts.
ReadFailedClearsAlerts(t) ==
    /\ ticks[t].pc = "read"
    /\ callbackCatch(t, "readFailed", << >>)
    /\ alerts' = << >>
    /\ UNCHANGED << monitoringInterval, timers, timerSeq, thresholds, outputStatus,
                    listeners, pendingStarts, pendingStops >>
    /\ UNCHANGED notMon

\* getEnvironmentalData rejected: lines 150-152.
ReadFailed(t) ==
    /\ ticks[t].pc = "read"
    /\ callbackCatch(t, "readFailed", << >>)
    /\ UNCHANGED << monitoringInterval, timers, timerSeq, thresholds, alerts, outputStatus,
                    listeners, pendingStarts, pendingStops >>
    /\ UNCHANGED notMon

\* getEnvironmentalData resolved with data: lines 136-146 and updateOutputs
\* up to await this.kitronikService.updateDisplay(...) (line 225).
ReadSucceeded(t, data) ==
    /\ ticks[t].pc = "read"
    /\ LET as == checkConditions(data, thresholds)
           afterReading == Delivered("reading")
           afterAlerts == afterReading \o (IF Len(as) > 0 THEN Delivered("alerts") ELSE << >>)
       IN  /\ alerts' = as
           /\ IF EmitThrows("reading")
                THEN callbackCatch(t, "ok", afterReading)
              ELSE IF Len(as) > 0 /\ EmitThrows("alerts")
                THEN callbackCatch(t, "ok", afterAlerts)
              ELSE /\ ticks' = [ticks EXCEPT ![t] = [pc |-> "display", data |-> data, alerts |-> as,
                                                      before |-> FieldOf(outputStatus, "display"),
                                                      started |-> DefaultThresholds]]
                   /\ obs' = [NoObs EXCEPT !.result = "ok", !.emits = afterAlerts]
                   /\ noMetrics
    /\ UNCHANGED << monitoringInterval, timers, timerSeq, thresholds, outputStatus,
                    listeners, pendingStarts, pendingStops >>
    /\ UNCHANGED notMon

tickFrame == UNCHANGED << monitoringInterval, timers, timerSeq, thresholds, alerts, listeners,
                          pendingStarts, pendingStops >>

\* updateDisplay settled (kitronik.service.ts 304-329), then lines 227-235
\* up to the first await of setLEDPattern.
DisplayDone(t, ok) ==
    /\ ticks[t].pc = "display"
    /\ outputStatus' = updateDisplayStatus(outputStatus, ok)
    /\ IF ok
         THEN /\ ticks' = Goto(t, "leds")
              /\ obs' = [NoObs EXCEPT !.result = "ok"]
              /\ noMetrics
         ELSE updateOutputsCatch(t, "displayFailed")
    /\ tickFrame
    /\ UNCHANGED notMon

\* The pixel writes and show() of setLEDPattern settled (386-399).  On
\* success updateOutputs goes on to the relay (lines 238-240) or, without an
\* airQuality alert, to the servo (243-244); on failure the catch block of
\* setLEDPattern awaits clear() and show() before it throws.
LedsDone(t, ok) ==
    /\ ticks[t].pc = "leds"
    /\ outputStatus' = setLEDPatternStatus(outputStatus, ok)
    /\ ticks' = IF ~ok THEN [ticks EXCEPT ![t].pc = "ledsClear"]
                 ELSE IF HasAirQualityAlert(ticks[t].alerts) THEN Goto(t, "relay")
                 ELSE Goto(t, "servo")
    /\ obs' = [NoObs EXCEPT !.result = IF ok THEN "ok" ELSE "ledsClearing"]
    /\ noMetrics
    /\ tickFrame
    /\ UNCHANGED notMon

\* clear() and show() of the catch block settled (400-402): setLEDPattern
\* rejects, with 'Failed to set LED pattern' or with the error of clear/show.
LedsClearDone(t, ok) ==
    /\ ticks[t].pc = "ledsClear"
    /\ updateOutputsCatch(t, "ledsFailed")
    /\ UNCHANGED outputStatus
    /\ tickFrame
    /\ UNCHANGED notMon

\* An updateOutputs that issues the servo call without awaiting it, so that
\* the callback records its metrics while the call is pending.
RelayDoneServoUnawaited(t, ok) ==
    /\ ticks[t].pc = "relay"
    /\ outputStatus' = setHighPowerOutputStatus(outputStatus, ok, 0, TRUE)
    /\ IF ok
         THEN /\ ticks' = Goto(t, "servo")
              /\ obs' = [NoObs EXCEPT !.result = "ok", !.metrics = TRUE]
              /\ updateMetrics(ticks[t].data)
              /\ UNCHANGED readingErrors
         ELSE updateOutputsCatch(t, "relayFailed")
    /\ tickFrame
    /\ UNCHANGED notMon

\* setHighPowerOutput(0, true) settled (417-435), then lines 243-244.
RelayDone(t, ok) ==
    /\ ticks[t].pc = "relay"
    /\ outputStatus' = setHighPowerOutputStatus(outputStatus, ok, 0, TRUE)
    /\ IF ok
         THEN /\ ticks' = Goto(t, "servo")
              /\ obs' = [NoObs EXCEPT !.result = "ok"]
              /\ noMetrics
         ELSE updateOutputsCatch(t, "relayFailed")
    /\ tickFrame
    /\ UNCHANGED notMon

\* setServoPosition(0, humidityAngle) settled (437-453); an angle outside
\* 0..180 is rejected before the hardware is called.  On success
\* updateOutputs returns and the callback runs updateMetrics (line 149).
ServoDone(t, hw) ==
    /\ ticks[t].pc = "servo"
    /\ LET angle == humidityAngle(ticks[t].data)
           ok == hw /\ ValidServoAngle(angle)
       IN  /\ outputStatus' = setServoPositionStatus(outputStatus, ok, 0, angle)
           /\ IF ok
                THEN /\ ticks' = [ticks EXCEPT ![t] = FreeTick]
                     /\ obs' = [NoObs EXCEPT !.result = "ok", !.metrics = TRUE]
                     /\ updateMetrics(ticks[t].data)
                     /\ UNCHANGED readingErrors
                ELSE updateOutputsCatch(t, "servoFailed")
    /\ tickFrame
    /\ UNCHANGED notMon

\* ------------------------------------------------------------ start / stop
\* The handle setInterval returns: a new one at every call.
NewTimerId == timerSeq + 1

\* A startMonitoring without the check of lines 127-129.
StartCallUnguarded(intervalMs) ==
    /\ timerSeq + Len(pendingStarts) < MaxTimers
    /\ obs' = [NoObs EXCEPT !.result = "pending"]
    /\ pendingStarts' = Append(pendingStarts, intervalMs)
    /\ UNCHANGED << monitoringInterval, timers, timerSeq, thresholds, alerts, outputStatus,
                    readingsTotal, readingErrors, listeners, ticks, pendingStops >>
    /\ UNCHANGED notMon

\* startMonitoring(intervalMs) up to await validateSensorConnection()
\* (lines 126-131); with a timer in monitoringInterval it throws instead.
StartCall(intervalMs) ==
    /\ monitoringInterval # 0 \/ timerSeq + Len(pendingStarts) < MaxTimers
    /\ IF monitoringInterval # 0
         THEN /\ obs' = [NoObs EXCEPT !.result = "AlreadyRunning"]
              /\ UNCHANGED pendingStarts
         ELSE /\ obs' = [NoObs EXCEPT !.result = "pending"]
              /\ pendingStarts' = Append(pendingStarts, intervalMs)
    /\ UNCHANGED << monitoringInterval, timers, timerSeq, thresholds, alerts, outputStatus,
                    readingsTotal, readingErrors, listeners, ticks,
                    pendingStops >>
    /\ UNCHANGED notMon

RemoveAt(s, i) == [j \in 1..(Len(s) - 1) |-> IF j < i THEN s[j] ELSE s[j + 1]]

\* validateSensorConnection settled.  It resolves (true, or false after a
\* SensorError, which startMonitoring does not look at) or rejects with another
\* error; after a resolve line 133 schedules the timer and stores it.
StartResume(i, resolved) ==
    /\ i \in 1..Len(pendingStarts)
    /\ pendingStarts' = RemoveAt(pendingStarts, i)
    /\ IF resolved
         THEN LET tm == [id |-> NewTimerId, interval |-> pendingStarts[i]]
              IN  /\ timers' = timers \cup {tm}
                  /\ timerSeq' = timerSeq + 1
                  /\ monitoringInterval' = tm.id
                  /\ obs' = [NoObs EXCEPT !.result = "ok"]
         ELSE /\ UNCHANGED << timers, timerSeq, monitoringInterval >>
              /\ obs' = [NoObs EXCEPT !.result = "failed"]
    /\ UNCHANGED << thresholds, alerts, outputStatus, readingsTotal, readingErrors,
                    listeners, ticks, pendingStops >>
    /\ UNCHANGED notMon

\* stopMonitoring up to await this.kitronikService.cleanup() (lines 156-161).
StopCall ==
    /\ pendingStops < MaxPendingStops
    /\ timers' = {tm \in timers : tm.id # monitoringInterval}
    /\ monitoringInterval' = 0
    /\ pendingStops' = pendingStops + 1
    /\ obs' = [NoObs EXCEPT !.result = "pending"]
    /\ UNCHANGED << timerSeq, thresholds, alerts, outputStatus, readingsTotal, readingErrors,
                    listeners, ticks, pendingStarts >>
    /\ UNCHANGED notMon

\* cleanup() settled (kitronik.service.ts 459-480) and stopMonitoring returns
\* (or rejects with 'Failed to cleanup outputs').
StopResume(ok) ==
    /\ pendingStops > 0
    /\ pendingStops' = pendingStops - 1
    /\ outputStatus' = cleanupStatus(outputStatus, ok)
    /\ obs' = [NoObs EXCEPT !.result = IF ok THEN "stopped" ELSE "stopFailed"]
    /\ UNCHANGED << monitoringInterval, timers, timerSeq, thresholds, alerts, readingsTotal,
                    readingErrors, listeners, ticks, pendingStarts >>
    /\ UNCHANGED notMon

\* updateThresholds(newThresholds), lines 264-269: a shallow merge.
updateThresholds(newThresholds) ==
    /\ thresholds' = [k \in DOMAIN thresholds |->
                        IF k \in DOMAIN newThresholds THEN newThresholds[k] ELSE thresholds[k]]
    /\ thresholds' # thresholds    \* a call that changes nothing is a stuttering step
    /\ obs' = [NoObs EXCEPT !.result = "ok"]
    /\ UNCHANGED << monitoringInterval, timers, timerSeq, alerts, outputStatus, readingsTotal,
                    readingErrors, listeners, ticks, pendingStarts,
                    pendingStops >>
    /\ UNCHANGED notMon

MonNext ==
    \/ \E tm \in timers : TimerFire(tm)
    \/ \E t \in Slots : ReadFailed(t)
    \/ \E t \in Slots, data \in Readings : ReadSucceeded(t, data)
    \/ \E t \in Slots, ok \in BOOLEAN : DisplayDone(t, ok)
    \/ \E t \in Slots, ok \in BOOLEAN : LedsDone(t, ok)
    \/ \E t \in Slots, ok \in BOOLEAN : LedsClearDone(t, ok)
    \/ \E t \in Slots, ok \in BOOLEAN : RelayDone(t, ok)
    \/ \E t \in Slots, ok \in BOOLEAN : ServoDone(t, ok)
    \/ \E ms \in Intervals : StartCall(ms)
    \/ \E i \in 1..MaxTimers, ok \in BOOLEAN : StartResume(i, ok)
    \/ StopCall
    \/ \E ok \in BOOLEAN : StopResume(ok)
    \/ \E nt \in ThresholdUpdates : updateThresholds(nt)

\* ============================================================ retry wrappers
\* The three retry wrappers of the repository, run on an operation whose
\* attempts settle one by one: withRetry and createRetryableOperation
\* (backend/utils/errorHandling.ts) and withErrorHandling
\* (src/services/kitronik.service.ts).

\* Largest maxRetries argument that is tried.
MaxRetriesArg == 3
\* withErrorHandling: const maxRetries = 3 (line 15).
ClientMaxRetries == 3
\* withErrorHandling: delay(1000 * (attempt + 1)) (line 39).
ClientDelayMs == 1000

\* delayMs arguments (1000 is the default).
DelayArgs == {250, 1000}

Wrappers == {"withRetry", "createRetryableOperation", "withErrorHandling"}

\* What an attempt of the operation can throw: a KitronikError of some type,
\* or an axios error with a response status (0: no response).
KErr(type) == [kind |-> "kitronik", type |-> type, status |-> 0]
AxErr(status) == [kind |-> "axios", type |-> "", status |-> status]
NoError == [kind |-> "none", type |-> "", status |-> 0]

BackendErrors == {KErr("NETWORK_ERROR"), KErr("VALIDATION_ERROR")}
ClientErrors == {AxErr(404), AxErr(408), AxErr(503), AxErr(0)}

ErrorsOf(w) == IF w = "withErrorHandling" THEN ClientErrors ELSE BackendErrors

\* isRetryableError, errorHandling.ts 88-94.
isRetryableError(e) ==
    e.kind = "kitronik" /\ e.type \in {"NETWORK_ERROR", "SENSOR_ERROR"}

\* The test of withErrorHandling, lines 22-24: a response status below 500
\* other than 408 is a client error.
isClientError(e) ==
    e.kind = "axios" /\ e.status # 0 /\ e.status < 500 /\ e.status # 408

\* options.shouldRetry of createRetryableOperation: the default () => true,
\* or the repository's isRetryableError.
ShouldRetryOptions == {"default", "isRetryableError"}

shouldRetry(option, e) == option = "default" \/ isRetryableError(e)

NoResult == [kind |-> "none", value |-> 0, error |-> NoError, code |-> ""]
Returned(v) == [NoResult EXCEPT !.kind = "returned", !.value = v]
Thrown(e, code) == [NoResult EXCEPT !.kind = "thrown", !.error = e, !.code = code]

\* The classification each wrapper's policy gives an error.  withRetry takes
\* no classifier; the repository's classifier for backend errors is
\* isRetryableError.
Retryable(w, option, e) ==
    CASE w = "withRetry" -> isRetryableError(e)
      [] w = "createRetryableOperation" -> shouldRetry(option, e)
      [] w = "withErrorHandling" -> ~isClientError(e)

RetryIdle ==
    /\ rWrapper = "withRetry"
    /\ rMaxRetries = 0
    /\ rDelayMs = 0
    /\ rShouldRetry = "default"
    /\ rPc = "idle"
    /\ rAttempt = 0
    /\ rCalls = 0
    /\ rWaits = << >>
    /\ rLastError = NoError
    /\ rFatal = FALSE
    /\ rResult = NoResult

runFrame == UNCHANGED << rWrapper, rMaxRetries, rDelayMs, rShouldRetry >>

\* A wrapper is called: the loop is entered and the first attempt is made;
\* with maxRetries = 0 the loop body never runs and lastError (undefined) is
\* thrown (errorHandling.ts 140, 222).
RetryRun(w, maxRetries, delayMs, option) ==
    /\ rPc = "idle"
    /\ rWrapper' = w
    /\ rMaxRetries' = maxRetries
    /\ rDelayMs' = delayMs
    /\ rShouldRetry' = option
    /\ rAttempt' = IF w = "withErrorHandling" THEN 0 ELSE 1
    /\ IF maxRetries >= 1
         THEN rPc' = "calling" /\ rCalls' = 1 /\ rResult' = NoResult
         ELSE rPc' = "done" /\ rCalls' = 0 /\ rResult' = Thrown(NoError, "raw")
    /\ UNCHANGED << rWaits, rLastError, rFatal >>
    /\ UNCHANGED notRetry

\* A catch block that waits delayMs before every retry.
withRetryCatchFixedDelay(e) ==
    /\ rLastError' = e
    /\ IF rAttempt = rMaxRetries
         THEN rPc' = "done" /\ rResult' = Thrown(e, "raw") /\ UNCHANGED rWaits
         ELSE rPc' = "waiting" /\ rWaits' = Append(rWaits, rDelayMs)
              /\ UNCHANGED rResult

\* The catch block of withRetry, lines 129-137.
withRetryCatch(e) ==
    /\ rLastError' = e
    /\ IF rAttempt = rMaxRetries
         THEN rPc' = "done" /\ rResult' = Thrown(e, "raw") /\ UNCHANGED rWaits
         ELSE rPc' = "waiting" /\ rWaits' = Append(rWaits, rDelayMs * rAttempt)
              /\ UNCHANGED rResult

\* The catch block of createRetryableOperation, lines 211-219.
createRetryableOperationCatch(e) ==
    /\ rLastError' = e
    /\ IF rAttempt = rMaxRetries \/ ~shouldRetry(rShouldRetry, e)
         THEN rPc' = "done" /\ rResult' = Thrown(e, "raw") /\ UNCHANGED rWaits
         ELSE rPc' = "waiting" /\ rWaits' = Append(rWaits, rDelayMs * rAttempt)
              /\ UNCHANGED rResult

\* The catch block of withErrorHandling, lines 21-40.
withErrorHandlingCatch(e) ==
    /\ rLastError' = e
    /\ IF isClientError(e)
         THEN rPc' = "done" /\ rResult' = Thrown(e, "CLIENT_ERROR") /\ UNCHANGED rWaits
       ELSE IF rAttempt = rMaxRetries - 1
         THEN rPc' = "done" /\ rResult' = Thrown(e, "OPERATION_FAILED") /\ UNCHANGED rWaits
       ELSE rPc' = "waiting" /\ rWaits' = Append(rWaits, ClientDelayMs * (rAttempt + 1))
            /\ UNCHANGED rResult

\* await operation() resolved: the wrapper returns the value.
AttemptSucceeds ==
    /\ rPc = "calling"
    /\ rPc' = "done"
    /\ rResult' = Returned(rCalls)
    /\ UNCHANGED << rAttempt, rCalls, rWaits, rLastError, rFatal >>
    /\ runFrame
    /\ UNCHANGED notRetry

\* await operation() rejected with e.
AttemptFails(e) ==
    /\ rPc = "calling"
    /\ e \in ErrorsOf(rWrapper)
    /\ rFatal' = (rFatal \/ ~Retryable(rWrapper, rShouldRetry, e))
    /\ CASE rWrapper = "withRetry" -> withRetryCatch(e)
         [] rWrapper = "createRetryableOperation" -> createRetryableOperationCatch(e)
         [] rWrapper = "withErrorHandling" -> withErrorHandlingCatch(e)
    /\ UNCHANGED << rAttempt, rCalls >>
    /\ runFrame
    /\ UNCHANGED notRetry

\* The backoff timer ran out: attempt++ and, the loop condition holding,
\* the next attempt is made.
BackoffElapsed ==
    /\ rPc = "waiting"
    /\ rAttempt' = rAttempt + 1
    /\ rPc' = "calling"
    /\ rCalls' = rCalls + 1
    /\ UNCHANGED << rWaits, rLastError, rFatal, rResult >>
    /\ runFrame
    /\ UNCHANGED notRetry

RetryNext ==
    \/ \E w \in Wrappers, m \in 0..MaxRetriesArg, d \in DelayArgs, o \in ShouldRetryOptions :
          /\ (w = "withErrorHandling" => m = ClientMaxRetries /\ d = ClientDelayMs)
          /\ (w # "createRetryableOperation" => o = "default")
          /\ RetryRun(w, m, d, o)
    \/ AttemptSucceeds
    \/ \E e \in BackendErrors \cup ClientErrors : AttemptFails(e)
    \/ BackoffElapsed

\* ============================================================== rate limiter
\* rateLimit(key, limit, windowMs), backend/utils/errorHandling.ts 143-187,
\* over the store rateLimits/<key>.  Several calls can be in flight: a call
\* gives up control at the query (line 157) and at the write (line 172).

\* Calls that can be in flight together.
MaxRateCalls == 2
\* Entries the store can hold.
MaxEntries == 4

RateSlots == 1..MaxRateCalls

Keys == {"a", "b"}

\* The values Date.now() takes, in seconds.
Times == <<0, 10, 20, 25, 60, 61>>

\* limit and windowMs arguments (60 s is the default window).
RateLimits == {1, 3}
RateWindows == {60}

NoCall == [pc |-> "free", key |-> "a", now |-> 0, count |-> 0]
NoReturn == [key |-> "a", now |-> -1, allowed |-> FALSE, failed |-> FALSE]

RateIdle ==
    /\ rlStore = [k \in Keys |-> << >>]
    /\ rlClock = 1
    /\ rlLimit = 1
    /\ rlWindow = 60
    /\ rlCalls = [c \in RateSlots |-> NoCall]
    /\ rlLast = NoReturn

RateInit ==
    /\ rlStore = [k \in Keys |-> << >>]
    /\ rlClock = 1
    /\ rlLimit \in RateLimits
    /\ rlWindow \in RateWindows
    /\ rlCalls = [c \in RateSlots |-> NoCall]
    /\ rlLast = NoReturn

\* Date.now()
Now == Times[rlClock]

\* A query that leaves out the entry exactly at windowStart.
requestsAfter(key, now, windowMs) ==
    SelectSeq(rlStore[key], LAMBDA ts : ts > now - windowMs)

\* ref.orderByChild('timestamp').startAt(windowStart) with
\* windowStart = now - windowMs (lines 152-157): the entries at or after
\* windowStart.
requests(key, now, windowMs) ==
    SelectSeq(rlStore[key], LAMBDA ts : ts >= now - windowMs)

\* requests.filter(r => r.timestamp < windowStart) (lines 175-177): the
\* entries of the query result the cleanup removes.
cleanupEntries(key, now, windowMs) ==
    SelectSeq(requests(key, now, windowMs), LAMBDA ts : ts < now - windowMs)

RemoveEntries(store, old) ==
    SelectSeq(store, LAMBDA ts : \A i \in 1..Len(old) : old[i] # ts)

\* The call of slot c resolves with allowed.
Resolves(c, allowed, failed) ==
    /\ rlCalls' = [rlCalls EXCEPT ![c] = NoCall]
    /\ rlLast' = [key |-> rlCalls[c].key, now |-> rlCalls[c].now,
                  allowed |-> allowed, failed |-> failed]

\* Entries stored, counting one for every call in flight.
RECURSIVE Stored(_)
Stored(ks) ==
    IF ks = {} THEN 0
    ELSE LET k == CHOOSE x \in ks : TRUE IN Len(rlStore[k]) + Stored(ks \ {k})

Pending == Cardinality({c \in RateSlots : rlCalls[c].pc # "free"})

rateFrame == UNCHANGED << rlLimit, rlWindow >>

\* Time passes.
ClockAdvance ==
    /\ rlClock < Len(Times)
    /\ rlClock' = rlClock + 1
    /\ UNCHANGED << rlStore, rlCalls, rlLast >>
    /\ rateFrame
    /\ UNCHANGED notRate

\* rateLimit(key, ...) is called: now = Date.now() and the query is issued
\* (lines 148-157).
RateCall(c, key) ==
    /\ rlCalls[c].pc = "free"
    /\ Stored(Keys) + Pending < MaxEntries
    /\ rlCalls' = [rlCalls EXCEPT ![c] = [NoCall EXCEPT !.pc = "query", !.key = key, !.now = Now]]
    /\ UNCHANGED << rlStore, rlClock, rlLast >>
    /\ rateFrame
    /\ UNCHANGED notRate

\* A query that fails closed: on a storage error the call is denied.
QueryDoneFailClosed(c, ok) ==
    /\ rlCalls[c].pc = "query"
    /\ LET n == Len(requests(rlCalls[c].key, rlCalls[c].now, rlWindow))
       IN  IF ok /\ n < rlLimit
             THEN /\ rlCalls' = [rlCalls EXCEPT ![c].pc = "push", ![c].count = n]
                  /\ UNCHANGED rlLast
             ELSE Resolves(c, FALSE, ~ok)
    /\ UNCHANGED << rlStore, rlClock >>
    /\ rateFrame
    /\ UNCHANGED notRate

\* The query settled (lines 154-170): with the window full the call resolves
\* false; with room it issues the write (line 172); on a storage error the
\* catch block resolves true (lines 182-185).
QueryDone(c, ok) ==
    /\ rlCalls[c].pc = "query"
    /\ LET n == Len(requests(rlCalls[c].key, rlCalls[c].now, rlWindow))
       IN  IF ~ok
             THEN Resolves(c, TRUE, TRUE)
           ELSE IF n >= rlLimit
             THEN Resolves(c, FALSE, FALSE)
           ELSE /\ rlCalls' = [rlCalls EXCEPT ![c].pc = "push", ![c].count = n]
                /\ UNCHANGED rlLast
    /\ UNCHANGED << rlStore, rlClock >>
    /\ rateFrame
    /\ UNCHANGED notRate

\* The write settled (line 172).  Done, the new timestamp is in the store
\* and the cleanup is issued (lines 175-179); failed, the catch block
\* resolves true.
PushDone(c, ok) ==
    /\ rlCalls[c].pc = "push"
    /\ IF ok
         THEN /\ rlStore' = [rlStore EXCEPT ![rlCalls[c].key] = Append(@, rlCalls[c].now)]
              /\ rlCalls' = [rlCalls EXCEPT ![c].pc = "cleanup"]
              /\ UNCHANGED rlLast
         ELSE /\ Resolves(c, TRUE, TRUE)
              /\ UNCHANGED rlStore
    /\ UNCHANGED rlClock
    /\ rateFrame
    /\ UNCHANGED notRate

\* await Promise.all(cleanupPromises) settled (line 179): the removals of
\* the entries picked at lines 175-177 are done and the call resolves true
\* (line 181); a removal that failed goes to the catch block, which resolves
\* true as well.
CleanupDone(c, ok) ==
    /\ rlCalls[c].pc = "cleanup"
    /\ LET old == cleanupEntries(rlCalls[c].key, rlCalls[c].now, rlWindow)
       IN  /\ ok \/ Len(old) > 0
           /\ rlStore' = [rlStore EXCEPT ![rlCalls[c].key] =
                            IF ok THEN RemoveEntries(@, old) ELSE @]
    /\ Resolves(c, TRUE, ~ok)
    /\ UNCHANGED rlClock
    /\ rateFrame
    /\ UNCHANGED notRate

RateNext ==
    \/ ClockAdvance
    \/ \E c \in RateSlots, k \in Keys : RateCall(c, k)
    \/ \E c \in RateSlots, ok \in BOOLEAN : QueryDone(c, ok)
    \/ \E c \in RateSlots, ok \in BOOLEAN : PushDone(c, ok)
    \/ \E c \in RateSlots, ok \in BOOLEAN : CleanupDone(c, ok)

\* ======================================================= threshold evaluator
\* checkConditions over a range of readings and of threshold configurations,
\* the configurations being those updateThresholds installs.

\* Readings around every threshold of the configurations below.
EvalTemperatures == {10, 15, 20, 30, 35, 40}
EvalHumidities == {20, 30, 50, 70, 80}
EvalAirQualities == {20, 30, 45, 60, 80}

EvalReadings ==
    { Reading(t, h, 1000, a) : t \in EvalTemperatures, h \in EvalHumidities,
                               a \in EvalAirQualities }

\* Arguments of updateThresholds: one section or two, valid or not
\* (min >= max, a bound out of range, hazardous >= poor).
TemperatureSections == { [min |-> 15, max |-> 40], [min |-> 40, max |-> 15],
                         [min |-> -60, max |-> 30] }
HumiditySections == { [min |-> 20, max |-> 80], [min |-> 70, max |-> 30] }
AirQualitySections == { [poor |-> 45, hazardous |-> 20], [poor |-> 30, hazardous |-> 60] }

AllThresholdUpdates ==
    { [temperature |-> t] : t \in TemperatureSections }
      \cup { [humidity |-> h] : h \in HumiditySections }
      \cup { [airQuality |-> a] : a \in AirQualitySections }
      \cup { [temperature |-> t, airQuality |-> a] :
               t \in TemperatureSections, a \in AirQualitySections }

\* ValidationService.validateThresholds, validation.service.ts 35-65 (the
\* typeof tests hold of every configuration here).
validateThresholds(th) ==
    /\ ~( \/ th.temperature.min >= th.temperature.max
          \/ th.temperature.min < -50
          \/ th.temperature.max > 100 )
    /\ ~( \/ th.humidity.min >= th.humidity.max
          \/ th.humidity.min < 0
          \/ th.humidity.max > 100 )
    /\ ~( \/ th.airQuality.hazardous >= th.airQuality.poor
          \/ th.airQuality.hazardous < 0
          \/ th.airQuality.poor > 100 )

EvalIdle ==
    /\ evReading = NoData
    /\ evAlerts = << >>

\* const alerts = await this.checkConditions(data) (line 136) for a reading
\* data and the thresholds held.
Evaluate(data) ==
    /\ evReading' = data
    /\ evAlerts' = checkConditions(data, thresholds)
    /\ UNCHANGED monVars
    /\ UNCHANGED notEval

EvalNext ==
    \/ \E nt \in AllThresholdUpdates : updateThresholds(nt)
    \/ \E data \in EvalReadings : Evaluate(data)

\* ============================================================== read-backs
\* getAlerts (monitoring.service.ts 260-262) and getOutputStatus
\* (kitronik.service.ts 455-457) and what a caller does with their results.
\* Both copy one level: [...this.alerts] is a new array of the same alert
\* objects, { ...this.outputStatus } a new object with the same two arrays.

NotHeld == [held |-> FALSE, displayActive |-> FALSE, ledsActive |-> FALSE]

CopyIdle ==
    /\ cpAlerts = << >>
    /\ cpStatus = NotHeld
    /\ cpOrigAlerts = << >>
    /\ cpOrigStatus = InitialOutputStatus

\* Actuator states ticks leave behind.
StatusesAfterTicks ==
    { InitialOutputStatus,
      [InitialOutputStatus EXCEPT !.displayActive = TRUE, !.ledsActive = TRUE,
                                  !.servoPositions[1] = 90],
      [InitialOutputStatus EXCEPT !.displayActive = TRUE, !.ledsActive = TRUE,
                                  !.highPowerState[1] = TRUE, !.servoPositions[1] = 144] }

\* A service that has run ticks and was stopped: this.alerts and
\* outputStatus are what the last ticks left.
CopyInit ==
    /\ monitoringInterval = 0
    /\ timers = {}
    /\ timerSeq = 1
    /\ thresholds = DefaultThresholds
    /\ alerts \in {checkConditions(d, DefaultThresholds) : d \in Readings}
    /\ outputStatus \in StatusesAfterTicks
    /\ readingsTotal = 1
    /\ readingErrors = 0
    /\ listeners \in ListenerConfigs
    /\ listeners.error = "ok"
    /\ ticks = [t \in Slots |-> FreeTick]
    /\ pendingStarts = << >>
    /\ pendingStops = 0
    /\ obs = NoObs
    /\ cpAlerts = << >>
    /\ cpStatus = NotHeld
    /\ cpOrigAlerts = alerts
    /\ cpOrigStatus = outputStatus

coreFrame == UNCHANGED << monitoringInterval, timers, timerSeq, thresholds, readingsTotal,
                          readingErrors, listeners, ticks, pendingStarts, pendingStops, obs >>

origFrame == UNCHANGED << cpOrigAlerts, cpOrigStatus >>

\* getAlerts(): return [...this.alerts].
getAlerts ==
    /\ cpAlerts' = [i \in 1..Len(alerts) |-> i]
    /\ cpAlerts' # cpAlerts
    /\ UNCHANGED << alerts, outputStatus, cpStatus >>
    /\ coreFrame /\ origFrame
    /\ UNCHANGED notCopy

\* The caller writes returned[i].level = level: the object is the one
\* this.alerts holds, unless the caller put an object of its own there.
CallerMutatesAlert(i, level) ==
    /\ i \in 1..Len(cpAlerts)
    /\ cpAlerts[i] # 0
    /\ alerts[cpAlerts[i]].level # level
    /\ alerts' = [alerts EXCEPT ![cpAlerts[i]].level = level]
    /\ UNCHANGED << outputStatus, cpAlerts, cpStatus >>
    /\ coreFrame /\ origFrame
    /\ UNCHANGED notCopy

\* The caller writes returned[i] = its own object: the returned array is
\* the caller's.
CallerReplacesAlert(i) ==
    /\ i \in 1..Len(cpAlerts)
    /\ cpAlerts[i] # 0
    /\ cpAlerts' = [cpAlerts EXCEPT ![i] = 0]
    /\ UNCHANGED << alerts, outputStatus, cpStatus >>
    /\ coreFrame /\ origFrame
    /\ UNCHANGED notCopy

\* getOutputStatus(): return { ...this.outputStatus }.
getOutputStatus ==
    /\ cpStatus' = [held |-> TRUE, displayActive |-> outputStatus.displayActive,
                    ledsActive |-> outputStatus.ledsActive]
    /\ cpStatus' # cpStatus
    /\ UNCHANGED << alerts, outputStatus, cpAlerts >>
    /\ coreFrame /\ origFrame
    /\ UNCHANGED notCopy

\* The caller writes returned.displayActive: a field of the returned object.
CallerSetsFlag(b) ==
    /\ cpStatus.held
    /\ cpStatus.displayActive # b
    /\ cpStatus' = [cpStatus EXCEPT !.displayActive = b]
    /\ UNCHANGED << alerts, outputStatus, cpAlerts >>
    /\ coreFrame /\ origFrame
    /\ UNCHANGED notCopy

\* The caller writes returned.highPowerState[index] = state: the array is
\* the one this.outputStatus holds.
CallerWritesRelay(index, state) ==
    /\ cpStatus.held
    /\ outputStatus.highPowerState[index + 1] # state
    /\ outputStatus' = [outputStatus EXCEPT !.highPowerState[index + 1] = state]
    /\ UNCHANGED << alerts, cpAlerts, cpStatus >>
    /\ coreFrame /\ origFrame
    /\ UNCHANGED notCopy

\* The caller writes returned.servoPositions[index] = angle.
CallerWritesServo(index, angle) ==
    /\ cpStatus.held
    /\ outputStatus.servoPositions[index + 1] # angle
    /\ outputStatus' = [outputStatus EXCEPT !.servoPositions[index + 1] = angle]
    /\ UNCHANGED << alerts, cpAlerts, cpStatus >>
    /\ coreFrame /\ origFrame
    /\ UNCHANGED notCopy

\* What the caller writes.
CallerLevels == {"info", "danger"}
CallerAngles == {0, 45}

CopyNext ==
    \/ getAlerts
    \/ \E i \in 1..3, level \in CallerLevels : CallerMutatesAlert(i, level)
    \/ \E i \in 1..3 : CallerReplacesAlert(i)
    \/ getOutputStatus
    \/ \E b \in BOOLEAN : CallerSetsFlag(b)
    \/ \E index \in 0..1, state \in BOOLEAN : CallerWritesRelay(index, state)
    \/ \E angle \in CallerAngles : CallerWritesServo(0, angle)

\* =============================================================== LED strip
\* The LED part of updateOutputs (monitoring.service.ts 227-235) and
\* setLEDPattern (kitronik.service.ts 386-404) on the strip: setPixel writes
\* a pixel, clear blanks all, show makes the writes visible.

\* isValidLEDPattern: pattern.index < 8 (line 410).
NumPixels == 8
\* isValidLEDPattern: value <= 255 (line 412); the r of lines 230-231.
FullBrightness == 255

Pixels == 0..(NumPixels - 1)

Off == << 0, 0, 0 >>

\* The alert lists checkConditions returns under the default thresholds.
LedAlertLists == { checkConditions(d, DefaultThresholds) : d \in EvalReadings }

\* alerts.map((alert, index) => ({ index, r, g, b })), lines 228-233.
ledPatterns(as) ==
    [ i \in 1..Len(as) |->
        [ index |-> i - 1,
          r |-> IF as[i].level = "danger" THEN FullBrightness
                ELSE IF as[i].level = "warning" THEN FullBrightness ELSE 0,
          g |-> IF as[i].level = "info" THEN FullBrightness ELSE 0,
          b |-> 0 ] ]

\* isValidLEDPattern, kitronik.service.ts 406-415.
isValidLEDPattern(led) ==
    /\ led.index >= 0
    /\ led.index < NumPixels
    /\ \A v \in {led.r, led.g, led.b} : v >= 0 /\ v <= FullBrightness

\* The strip after setPixel for every entry of the pattern and show
\* (lines 388-394).
ShowPattern(pixels, pattern) ==
    [ p \in Pixels |->
        IF \E i \in 1..Len(pattern) : pattern[i].index = p
          THEN LET i == CHOOSE j \in 1..Len(pattern) : pattern[j].index = p
               IN  << pattern[i].r, pattern[i].g, pattern[i].b >>
          ELSE pixels[p] ]

LedIdle ==
    /\ ledPixels = [p \in Pixels |-> Off]
    /\ ledAlerts = << >>
    /\ ledResult = "none"

\* setLEDPattern(ledPatterns) for the alerts as, every hardware call done.
SetLEDPatternDone(as) ==
    /\ \A i \in 1..Len(as) : isValidLEDPattern(ledPatterns(as)[i])
    /\ ledPixels' = ShowPattern(ledPixels, ledPatterns(as))
    /\ ledAlerts' = as
    /\ ledResult' = "ok"
    /\ UNCHANGED notLed

\* setLEDPattern with a hardware call failing: the catch block clears the
\* strip and shows it (lines 400-401); cleared is whether that worked.
SetLEDPatternFailed(as, cleared) ==
    /\ ledPixels' = IF cleared THEN [p \in Pixels |-> Off] ELSE ledPixels
    /\ ledAlerts' = as
    /\ ledResult' = "failed"
    /\ UNCHANGED notLed

\* cleanup(): zipLeds.clear() and show() (kitronik.service.ts 464-465).
CleanupLeds ==
    /\ ledPixels # [p \in Pixels |-> Off]
    /\ ledPixels' = [p \in Pixels |-> Off]
    /\ ledAlerts' = << >>
    /\ ledResult' = "none"
    /\ UNCHANGED notLed

LedNext ==
    \/ \E as \in LedAlertLists : SetLEDPatternDone(as)
    \/ \E as \in LedAlertLists, cleared \in BOOLEAN : SetLEDPatternFailed(as, cleared)
    \/ CleanupLeds

\* ------------------------------------------------- updateOutputs, succeeding
\* updateOutputs(alerts, data), monitoring.service.ts 210-244, when every
\* awaited actuator call resolves: what it leaves in outputStatus.
updateOutputsDone(os, as, data) ==
    LET shown == updateDisplayStatus(os, TRUE)
        lit == setLEDPatternStatus(shown, TRUE)
        vented == IF HasAirQualityAlert(as)
                    THEN setHighPowerOutputStatus(lit, TRUE, 0, TRUE)
                    ELSE lit
    IN  setServoPositionStatus(vented, TRUE, 0, humidityAngle(data))

\* The alert lists and readings updateOutputs is called with.
OutputAlerts == {checkConditions(d, DefaultThresholds) : d \in Readings}

NoInput == [alerts |-> << >>, data |-> NoData]

\* The actuator states a run can find: any flags, relay 0 on or off, servo 0
\* at rest or at the angle of an earlier reading.
PreviousStates ==
    { [ displayActive  |-> d,
        ledsActive     |-> l,
        highPowerState |-> [i \in 1..NumHighPower |-> i = 1 /\ r],
        servoPositions |-> [i \in 1..NumServos |-> IF i = 1 THEN a ELSE 0] ] :
      d \in BOOLEAN, l \in BOOLEAN, r \in BOOLEAN,
      a \in {0} \cup {humidityAngle(x) : x \in Readings} }

ReconcileIdle ==
    /\ rcState = InitialOutputStatus
    /\ rcPrev = InitialOutputStatus
    /\ rcInput = NoInput
    /\ rcRuns = 0

RunOutputs(as, data) ==
    /\ ValidServoAngle(humidityAngle(data))
    /\ rcState' = updateOutputsDone(rcState, as, data)
    /\ rcPrev' = rcState
    /\ rcInput' = [alerts |-> as, data |-> data]
    /\ rcRuns' = IF rcRuns > 0 /\ rcInput = [alerts |-> as, data |-> data] THEN 2 ELSE 1
    /\ UNCHANGED notRc

\* cleanup() between runs (kitronik.service.ts 469-475).
CleanupOutputs ==
    /\ rcRuns > 0
    /\ rcState' = cleanupStatus(rcState, TRUE)
    /\ rcPrev' = rcState
    /\ rcInput' = NoInput
    /\ rcRuns' = 0
    /\ UNCHANGED notRc

ReconcileNext ==
    \/ \E as \in OutputAlerts, data \in Readings : RunOutputs(as, data)
    \/ CleanupOutputs

\* ---------------------------------------------------------------- sessions
\* validateSession (session.middleware.ts 16-52), the session routes
\* (POST /start, POST /end, DELETE /device/:deviceId) and the scheduled
\* cleanupInactiveSessions (functions/src/index.ts 58-85).  Every database
\* operation is awaited; it takes effect, as one step, when it settles.
\* Time is counted in seconds.

\* Number of validateSession calls that can be in flight together.
MaxValidates == 2
\* server.config.ts:18  tokenExpiration: 3600
TokenExpiration == 3600

ValidateSlots == 1..MaxValidates

\* The tokens uuidv4() hands out, the one user and the one device.
SessionTokens == {"s1", "s2"}
User == "u1"
Device == "d1"

\* The values Date.now() takes.
SessionTimes == << 0, 1800, 3600, 3601 >>

NoSession == [exists |-> FALSE, userId |-> "", deviceId |-> "", lastActivity |-> 0, expiresAt |-> 0]

\* sessionData of POST /start (lines 320-327).
NewSession(now) ==
    [ exists |-> TRUE, userId |-> User, deviceId |-> Device,
      lastActivity |-> now, expiresAt |-> now + TokenExpiration ]

NoValidate == [pc |-> "free", token |-> "s1", at |-> 0]
NoDelete == [pc |-> "free", tokens |-> {}, at |-> 0]
NoResponse == [token |-> "s1", status |-> 0]

SessionIdle ==
    /\ ssStore = [tok \in SessionTokens |-> NoSession]
    /\ ssClock = 1
    /\ ssCalls = [c \in ValidateSlots |-> NoValidate]
    /\ ssDel = NoDelete
    /\ ssRemoved = {}
    /\ ssLast = NoResponse

SessionNow == SessionTimes[ssClock]

\* ref.remove() and update({<token>: null}): the records are gone.
RemoveSessions(store, toks) ==
    [tok \in SessionTokens |-> IF tok \in toks THEN NoSession ELSE store[tok]]

Existing(toks) == {tok \in toks : ssStore[tok].exists}

\* sessionRef.update({lastActivity, expiresAt}) (lines 41-44): the two
\* children are written, the others stay; on a path that holds nothing the
\* write creates the record with these two children only.
touch(session, at) ==
    [session EXCEPT !.exists = TRUE, !.lastActivity = at, !.expiresAt = at + TokenExpiration]

\* validateSession responds (401, 500) or calls next() (200).
Responds(c, status) ==
    /\ ssCalls' = [ssCalls EXCEPT ![c] = NoValidate]
    /\ ssLast' = [token |-> ssCalls[c].token, status |-> status]

\* Time passes.
SessionClockAdvance ==
    /\ ssClock < Len(SessionTimes)
    /\ ssClock' = ssClock + 1
    /\ UNCHANGED << ssStore, ssCalls, ssDel, ssRemoved, ssLast >>
    /\ UNCHANGED notSess

\* POST /start (lines 315-341): a record under a token never used before.
StartSession(tok) ==
    /\ ~ssStore[tok].exists
    /\ tok \notin ssRemoved
    /\ \A c \in ValidateSlots : ssCalls[c].pc = "free" \/ ssCalls[c].token # tok
    /\ ssStore' = [ssStore EXCEPT ![tok] = NewSession(SessionNow)]
    /\ UNCHANGED << ssClock, ssCalls, ssDel, ssRemoved, ssLast >>
    /\ UNCHANGED notSess

\* validateSession with the token in the header, up to the await of the
\* read (lines 21-28).
ValidateCall(c, tok) ==
    /\ ssCalls[c].pc = "free"
    /\ ssStore[tok].exists \/ tok \in ssRemoved
    /\ ssCalls' = [ssCalls EXCEPT ![c] = [NoValidate EXCEPT !.pc = "read", !.token = tok]]
    /\ UNCHANGED << ssStore, ssClock, ssDel, ssRemoved, ssLast >>
    /\ UNCHANGED notSess

\* The read settled (lines 28-44): no record, 401; an expired record, the
\* removal is issued; otherwise the update is issued with the times of now.
ValidateRead(c, ok) ==
    /\ ssCalls[c].pc = "read"
    /\ LET session == ssStore[ssCalls[c].token]
       IN  IF ~ok THEN Responds(c, 500)
           ELSE IF ~session.exists THEN Responds(c, 401)
           ELSE IF SessionNow > session.expiresAt
             THEN ssCalls' = [ssCalls EXCEPT ![c].pc = "remove"] /\ UNCHANGED ssLast
           ELSE ssCalls' = [ssCalls EXCEPT ![c].pc = "update", ![c].at = SessionNow]
                /\ UNCHANGED ssLast
    /\ UNCHANGED << ssStore, ssClock, ssDel, ssRemoved >>
    /\ UNCHANGED notSess

\* sessionRef.remove() of the expiry branch settled (lines 36-37).
ValidateRemoveDone(c, ok) ==
    /\ ssCalls[c].pc = "remove"
    /\ IF ok
         THEN /\ ssStore' = RemoveSessions(ssStore, {ssCalls[c].token})
              /\ ssRemoved' = ssRemoved \cup Existing({ssCalls[c].token})
              /\ Responds(c, 401)
         ELSE /\ UNCHANGED << ssStore, ssRemoved >>
              /\ Responds(c, 500)
    /\ UNCHANGED << ssClock, ssDel >>
    /\ UNCHANGED notSess

\* sessionRef.update(...) settled (lines 41-47): next() is called.
ValidateUpdateDone(c, ok) ==
    /\ ssCalls[c].pc = "update"
    /\ IF ok
         THEN /\ ssStore' = [ssStore EXCEPT ![ssCalls[c].token] = touch(@, ssCalls[c].at)]
              /\ Responds(c, 200)
         ELSE /\ UNCHANGED ssStore
              /\ Responds(c, 500)
    /\ UNCHANGED << ssClock, ssDel, ssRemoved >>
    /\ UNCHANGED notSess

delFrame == UNCHANGED << ssClock, ssCalls, ssLast >>

\* POST /end with the token in the body, up to the await of the read
\* (errorHandling.ts 344-352).
EndCall(tok) ==
    /\ ssDel.pc = "free"
    /\ ssStore[tok].exists \/ tok \in ssRemoved
    /\ ssDel' = [NoDelete EXCEPT !.pc = "endRead", !.tokens = {tok}]
    /\ UNCHANGED << ssStore, ssRemoved >>
    /\ delFrame
    /\ UNCHANGED notSess

\* The read of POST /end settled (lines 352-363): 404 without a record, 403
\* for a record of another user, otherwise the removal is issued.
EndRead(ok) ==
    /\ ssDel.pc = "endRead"
    /\ LET session == ssStore[CHOOSE tok \in ssDel.tokens : TRUE]
       IN  ssDel' = IF ok /\ session.exists /\ session.userId = User
                      THEN [ssDel EXCEPT !.pc = "remove"]
                      ELSE NoDelete
    /\ UNCHANGED << ssStore, ssRemoved >>
    /\ delFrame
    /\ UNCHANGED notSess

\* DELETE /device/:deviceId up to the await of the query (lines 400-408).
DeviceDeleteCall ==
    /\ ssDel.pc = "free"
    /\ ssDel' = [NoDelete EXCEPT !.pc = "deviceQuery"]
    /\ UNCHANGED << ssStore, ssRemoved >>
    /\ delFrame
    /\ UNCHANGED notSess

\* The query by deviceId settled (lines 405-420): the sessions of the device
\* that belong to the user are collected and their removal is issued.
DeviceQueryDone(ok) ==
    /\ ssDel.pc = "deviceQuery"
    /\ LET updates == {tok \in SessionTokens :
                          /\ ssStore[tok].exists
                          /\ ssStore[tok].deviceId = Device
                          /\ ssStore[tok].userId = User}
       IN  ssDel' = IF ok /\ updates # {}
                      THEN [ssDel EXCEPT !.pc = "remove", !.tokens = updates]
                      ELSE NoDelete
    /\ UNCHANGED << ssStore, ssRemoved >>
    /\ delFrame
    /\ UNCHANGED notSess

\* cleanupInactiveSessions fires, up to the await of the query
\* (functions/src/index.ts 60-68).
CleanupCall ==
    /\ ssDel.pc = "free"
    /\ ssDel' = [NoDelete EXCEPT !.pc = "cleanupQuery", !.at = SessionNow]
    /\ UNCHANGED << ssStore, ssRemoved >>
    /\ delFrame
    /\ UNCHANGED notSess

\* orderByChild('expiresAt').endAt(now) settled (lines 65-78): the records
\* with expiresAt <= now are collected and their removal is issued.
CleanupQueryDone(ok) ==
    /\ ssDel.pc = "cleanupQuery"
    /\ LET updates == {tok \in SessionTokens :
                          ssStore[tok].exists /\ ssStore[tok].expiresAt <= ssDel.at}
       IN  ssDel' = IF ok /\ updates # {}
                      THEN [ssDel EXCEPT !.pc = "remove", !.tokens = updates]
                      ELSE NoDelete
    /\ UNCHANGED << ssStore, ssRemoved >>
    /\ delFrame
    /\ UNCHANGED notSess

\* The removal a deleting request issued settled (errorHandling.ts 363, 419;
\* index.ts 76).
DeleteDone(ok) ==
    /\ ssDel.pc = "remove"
    /\ ssDel' = NoDelete
    /\ IF ok
         THEN /\ ssStore' = RemoveSessions(ssStore, ssDel.tokens)
              /\ ssRemoved' = ssRemoved \cup Existing(ssDel.tokens)
         ELSE UNCHANGED << ssStore, ssRemoved >>
    /\ delFrame
    /\ UNCHANGED notSess

SessionNext ==
    \/ SessionClockAdvance
    \/ \E tok \in SessionTokens : StartSession(tok)
    \/ \E c \in ValidateSlots, tok \in SessionTokens : ValidateCall(c, tok)
    \/ \E c \in ValidateSlots, ok \in BOOLEAN : ValidateRead(c, ok)
    \/ \E c \in ValidateSlots, ok \in BOOLEAN : ValidateRemoveDone(c, ok)
    \/ \E c \in ValidateSlots, ok \in BOOLEAN : ValidateUpdateDone(c, ok)
    \/ \E tok \in SessionTokens : EndCall(tok)
    \/ \E ok \in BOOLEAN : EndRead(ok)
    \/ DeviceDeleteCall
    \/ \E ok \in BOOLEAN : DeviceQueryDone(ok)
    \/ CleanupCall
    \/ \E ok \in BOOLEAN : CleanupQueryDone(ok)
    \/ \E ok \in BOOLEAN : DeleteDone(ok)

\* ============================================================ specifications
vars == << monVars, retryVars, rateVars, evalVars, copyVars, ledVars, rcVars, sessVars >>

\* The monitoring loop; no retry wrapper runs (updateOutputs calls the
\* actuator methods directly).
Init == MonInit /\ RetryIdle /\ RateIdle /\ EvalIdle /\ CopyIdle /\ LedIdle /\ ReconcileIdle /\ SessionIdle

Next == MonNext

Spec == Init /\ [][Next]_vars

\* One run of a retry wrapper.
RetryInit == MonInit /\ listeners.error = "ok" /\ RetryIdle /\ RateIdle /\ EvalIdle /\ CopyIdle /\ LedIdle /\ ReconcileIdle /\ SessionIdle

RetrySpec == RetryInit /\ [][RetryNext]_vars

\* The rate limiter under concurrent calls.
RateLimitInit == MonInit /\ listeners.error = "ok" /\ RetryIdle /\ RateInit /\ EvalIdle /\ CopyIdle /\ LedIdle /\ ReconcileIdle /\ SessionIdle

RateSpec == RateLimitInit /\ [][RateNext]_vars

\* The threshold configuration and its evaluator.
EvalInit == MonInit /\ listeners.error = "ok" /\ RetryIdle /\ RateIdle /\ EvalIdle /\ CopyIdle /\ LedIdle /\ ReconcileIdle /\ SessionIdle

EvalSpec == EvalInit /\ [][EvalNext]_vars

\* A caller reading back the alerts and the actuator state.
ReadBackInit == CopyInit /\ RetryIdle /\ RateIdle /\ EvalIdle /\ LedIdle /\ ReconcileIdle /\ SessionIdle

CopySpec == ReadBackInit /\ [][CopyNext]_vars

\* The LED strip under a sequence of setLEDPattern calls.
LedInit == MonInit /\ listeners.error = "ok" /\ RetryIdle /\ RateIdle /\ EvalIdle /\ CopyIdle
             /\ LedIdle /\ ReconcileIdle /\ SessionIdle

LedSpec == LedInit /\ [][LedNext]_vars

\* updateOutputs run again and again, from any actuator state.
ReconcileInit ==
    /\ MonInit /\ listeners.error = "ok"
    /\ RetryIdle /\ RateIdle /\ EvalIdle /\ CopyIdle /\ LedIdle
    /\ rcState \in PreviousStates
    /\ rcPrev = rcState
    /\ rcInput = NoInput
    /\ rcRuns = 0
    /\ SessionIdle

ReconcileSpec == ReconcileInit /\ [][ReconcileNext]_vars

\* The monitoring loop with subscribers of 'reading' and 'alerts' that
\* return, or of which one throws when it is notified.
SubscriberConfigs ==
    { [reading |-> "ok",     alerts |-> "ok",     error |-> "ok"],
      [reading |-> "throws", alerts |-> "ok",     error |-> "ok"],
      [reading |-> "ok",     alerts |-> "throws", error |-> "ok"] }

SubscriberInit ==
    /\ monitoringInterval = 0
    /\ timers = {}
    /\ timerSeq = 0
    /\ thresholds = DefaultThresholds
    /\ alerts = << >>
    /\ outputStatus = InitialOutputStatus
    /\ readingsTotal = 0
    /\ readingErrors = 0
    /\ listeners \in SubscriberConfigs
    /\ ticks = [t \in Slots |-> FreeTick]
    /\ pendingStarts = << >>
    /\ pendingStops = 0
    /\ obs = NoObs
    /\ RetryIdle /\ RateIdle /\ EvalIdle /\ CopyIdle /\ LedIdle /\ ReconcileIdle /\ SessionIdle

SubscriberSpec == SubscriberInit /\ [][MonNext]_vars

\* The session records under concurrent requests.
SessionInit ==
    /\ MonInit /\ listeners.error = "ok"
    /\ RetryIdle /\ RateIdle /\ EvalIdle /\ CopyIdle /\ LedIdle /\ ReconcileIdle
    /\ SessionIdle

SessionSpec == SessionInit /\ [][SessionNext]_vars

\* ================================================================ claims
\* Steps of a tick, told by what they do to the tick's position.
Ends(t, stage) == ticks[t].pc = stage /\ ticks'[t].pc = "free"
Moves(t, from, to) == ticks[t].pc = from /\ ticks'[t].pc = to

ActuatorStages == {"display", "leds", "ledsClear", "relay", "servo"}

\* C1: at every moment at most one tick of the monitoring loop is executing
\* (a timer firing during a running tick starts no second tick).
SingleFlight == Cardinality(InFlight) <= 1

\* C2: stopMonitoring called while a tick is in flight does not return until
\* that tick has finished: when it has returned and left no timer scheduled
\* and no start waiting, no tick is in flight (so none can act on the
\* actuators or publish after it).
StopWaitsForTick ==
    (obs.result = "stopped" /\ timers = {} /\ pendingStarts = << >>) => InFlight = {}

\* C3: no failure inside a tick leaves the timer callback as an exception or
\* a rejected promise, whatever listeners are registered.
NoEscape == ~obs.escaped

\* C4: startMonitoring called while a timer is held in monitoringInterval is
\* rejected with 'Monitoring already active' before it reaches the sensor
\* check, and that call changes nothing: the timers, the held timer, the
\* thresholds, the alerts, the actuator state, the ticks in flight.
StartWhileActiveRejected ==
    [][ /\ (monitoringInterval # 0 => Len(pendingStarts') <= Len(pendingStarts))
        /\ (obs'.result = "AlreadyRunning" =>
              /\ monitoringInterval # 0
              /\ UNCHANGED << monitoringInterval, timers, timerSeq, thresholds, alerts,
                              outputStatus, readingsTotal, readingErrors, ticks,
                              pendingStarts, pendingStops >>) ]_vars

\* C4 witness: a start call was rejected while a timer was running.
StartRejectedSeen == obs.result = "AlreadyRunning" /\ monitoringInterval # 0 /\ timers # {}

\* C5: a tick whose read succeeded calls all its actuators whichever of them
\* fail: it ends only after its servo call.
AllActuatorsAttempted ==
    [][ \A t \in Slots :
          (ticks[t].pc \in ActuatorStages /\ ticks'[t].pc = "free") => ticks[t].pc = "servo" ]_vars

FailedReadTouchesNothing ==
    [][ \A t \in Slots :
          (ticks[t].pc = "read" /\ ticks'[t].pc # "read" /\ obs'.result = "readFailed") =>
              /\ ticks'[t].pc = "free"
              /\ alerts' = alerts
              /\ outputStatus' = outputStatus
              /\ \A i \in 1..Len(obs'.emits) : obs'.emits[i] = "error"
              /\ timers' = timers
              /\ monitoringInterval' = monitoringInterval ]_vars

\* C7 witness: a read failed after an earlier tick had left alerts and an
\* actuator state, with the timer still scheduled.
FailedReadSeen ==
    /\ obs.result = "readFailed"
    /\ Len(alerts) > 0
    /\ outputStatus.displayActive
    /\ outputStatus.servoPositions[1] # 0
    /\ timers # {}

\* C8: metrics are recorded at the end of every tick: a tick whose read
\* succeeded adds exactly 1 to readings_total, a tick whose read failed adds
\* exactly 1 to reading_errors_total, and no counter decreases.
MetricsEveryTick ==
    [][ /\ \A t \in Slots :
             /\ (ticks[t].pc = "read" /\ ticks'[t].pc = "free" /\ obs'.result = "readFailed")
                    => readingErrors' = readingErrors + 1
             /\ (ticks[t].pc \in ActuatorStages /\ ticks'[t].pc = "free")
                    => readingsTotal' = readingsTotal + 1
        /\ readingsTotal' >= readingsTotal
        /\ readingErrors' >= readingErrors ]_vars

\* C9: a retry wrapper invokes the operation at most maxRetries times, and
\* after a failure its policy classifies as non-retryable it makes no further
\* invocation and does not wait: the run is over with that failure.
RetryBoundedAndFatalStops ==
    /\ rCalls <= rMaxRetries
    /\ (rFatal => (rPc = "done" /\ rResult.kind = "thrown" /\ rResult.error = rLastError))

\* C10: when every attempt fails with a retryable error the wrapper throws,
\* after the maxRetries-th failure, the last error wrapped as an
\* OPERATION_FAILED error; a run in which an attempt succeeds returns that
\* attempt's result and makes no further invocation.
ExhaustionWrapped ==
    /\ (rPc = "done" /\ rResult.kind = "thrown" /\ ~rFatal /\ rCalls >= 1) =>
          (rCalls = rMaxRetries /\ rResult.code = "OPERATION_FAILED"
             /\ rResult.error = rLastError)
    /\ (rResult.kind = "returned" => (rPc = "done" /\ rResult.value = rCalls))

\* The timestamps recorded for a key that lie in the window trailing now:
\* those not older than the window.
WindowCount(k, now) ==
    Cardinality({i \in 1..Len(rlStore[k]) : rlStore[k][i] >= now - rlWindow})

Acts(c) == rlCalls'[c] # rlCalls[c]

\* C11: with the storage working, a rateLimit call is allowed iff the number
\* of timestamps recorded for its key within the trailing window is below
\* the limit; an allowed call records its timestamp and nothing else, a
\* denied call records nothing; and no call touches another key's entries.
RateDecision ==
    [][ \A c \in RateSlots :
          LET k == rlCalls[c].key
              now == rlCalls[c].now
          IN  /\ (rlCalls[c].pc = "query" /\ rlCalls'[c].pc = "push") =>
                    (WindowCount(k, now) < rlLimit /\ rlStore' = rlStore)
              /\ (rlCalls[c].pc = "query" /\ rlCalls'[c].pc = "free" /\ ~rlLast'.failed) =>
                    (~rlLast'.allowed /\ WindowCount(k, now) >= rlLimit /\ rlStore' = rlStore)
              /\ (rlCalls[c].pc = "push" /\ rlCalls'[c].pc = "cleanup") =>
                    rlStore' = [rlStore EXCEPT ![k] = Append(@, now)]
              /\ (rlCalls[c].pc = "cleanup" /\ rlCalls'[c].pc = "free") =>
                    (rlLast'.allowed /\ ~rlLast'.failed /\ rlLast'.now = now
                       /\ \E i \in 1..Len(rlStore'[k]) : rlStore'[k][i] = now)
              /\ Acts(c) => \A k2 \in Keys \ {k} : rlStore'[k2] = rlStore[k2] ]_vars

\* C11 witness: limit 3, window 60 s: the calls at 0, 10 and 20 are
\* recorded, and the call at 61 was allowed and recorded, the entry of 0
\* having left the window.
RateExampleSeen ==
    /\ rlLimit = 3
    /\ rlWindow = 60
    /\ rlStore["a"] = <<0, 10, 20, 61>>
    /\ rlLast = [key |-> "a", now |-> 61, allowed |-> TRUE, failed |-> FALSE]

\* C12: a rateLimit call in which a storage operation failed resolves true.
FailsOpen == rlLast.failed => rlLast.allowed

\* C12 witness: a call was allowed on a storage error with its window full.
FailedOpenSeen ==
    /\ rlLast.failed
    /\ rlLast.allowed
    /\ rlLast.now >= 0
    /\ WindowCount(rlLast.key, rlLast.now) >= rlLimit

\* C13: the configuration the loop holds always satisfies the threshold
\* validity rules: updateThresholds rejects an invalid configuration and
\* leaves the held one as it was.
ThresholdsStayValid == validateThresholds(thresholds)

\* The alerts of a kind in a list.
OfKind(as, kind) == SelectSeq(as, LAMBDA a : a.type = kind)

\* A step that evaluates a reading (the thresholds stay).
Evaluates == evalVars' # evalVars /\ thresholds' = thresholds

\* C15: a reading whose temperature and humidity lie in their ranges, bounds
\* included, and whose air quality is at least poor yields no alert; and a
\* value exactly on a bound of its field yields no alert for that field.
NoAlertInRange ==
    [][ Evaluates =>
          LET d == evReading'
              th == thresholds
          IN  /\ ( /\ d.temperature >= th.temperature.min
                   /\ d.temperature <= th.temperature.max
                   /\ d.humidity >= th.humidity.min
                   /\ d.humidity <= th.humidity.max
                   /\ d.airQualityIndex >= th.airQuality.poor ) => evAlerts' = << >>
              /\ d.temperature \in {th.temperature.min, th.temperature.max}
                    => OfKind(evAlerts', "temperature") = << >>
              /\ d.humidity \in {th.humidity.min, th.humidity.max}
                    => OfKind(evAlerts', "humidity") = << >>
              /\ d.airQualityIndex = th.airQuality.poor
                    => OfKind(evAlerts', "airQuality") = << >> ]_vars

\* The reference list of C16: temperature, humidity, airQuality in this
\* order, at most one alert each.
RefAlert(kind, d, th) ==
    CASE kind = "temperature" ->
           IF d.temperature < th.temperature.min THEN {"warning"}
           ELSE IF d.temperature > th.temperature.max THEN {"danger"} ELSE {}
      [] kind = "humidity" ->
           IF d.humidity < th.humidity.min \/ d.humidity > th.humidity.max
             THEN {"warning"} ELSE {}
      [] kind = "airQuality" ->
           IF d.airQualityIndex < th.airQuality.hazardous THEN {"danger"}
           ELSE IF d.airQualityIndex < th.airQuality.poor THEN {"warning"} ELSE {}

RefKinds == << "temperature", "humidity", "airQuality" >>

\* C16: the alert list returned for a reading is the reference list; it
\* depends on the reading and the thresholds only, and a reading with air
\* quality below hazardous has exactly one airQuality alert, a danger.
EvaluatorMatchesReference ==
    [][ Evaluates =>
          LET d == evReading'
              th == thresholds
              present == SelectSeq(RefKinds, LAMBDA k : RefAlert(k, d, th) # {})
          IN  /\ Len(evAlerts') = Len(present)
              /\ \A i \in 1..Len(present) :
                    /\ evAlerts'[i].type = present[i]
                    /\ evAlerts'[i].level \in RefAlert(present[i], d, th)
              /\ d.airQualityIndex < th.airQuality.hazardous =>
                    /\ Len(OfKind(evAlerts', "airQuality")) = 1
                    /\ OfKind(evAlerts', "airQuality")[1].level = "danger" ]_vars

\* C16 witness: a reading that raised all three alerts, the temperature and
\* the air quality at danger.
ThreeAlertsSeen ==
    /\ Len(evAlerts) = 3
    /\ evAlerts[1].type = "temperature" /\ evAlerts[1].level = "danger"
    /\ evAlerts[2].type = "humidity"
    /\ evAlerts[3].type = "airQuality" /\ evAlerts[3].level = "danger"
    /\ evAlerts = checkConditions(evReading, thresholds)

\* C14: whatever a caller does to the values getAlerts() and
\* getOutputStatus() returned, the alerts and the actuator state the core
\* holds stay what the core left, so a later read-back returns the same.
ReadBackUnaffected == alerts = cpOrigAlerts /\ outputStatus = cpOrigStatus

\* A step of a tick.
TickStep == ticks' # ticks

\* C17: a tick whose alerts hold an airQuality alert commands relay 0 on
\* (it does not end before its relay call) and a relay call that succeeded
\* records it on; a tick without an airQuality alert makes no relay call;
\* no step of a tick switches a relay from on to off.
RelayPolicy ==
    [][ \A t \in Slots :
          /\ (HasAirQualityAlert(ticks[t].alerts) /\ ticks'[t].pc = "free")
                => ticks[t].pc \notin {"display", "leds", "ledsClear"}
          /\ Moves(t, "relay", "servo") => outputStatus'.highPowerState[1]
          /\ (ticks[t].pc # "free" /\ ~HasAirQualityAlert(ticks[t].alerts))
                => ticks'[t].pc # "relay"
          /\ TickStep => \A i \in 1..NumHighPower :
                            outputStatus.highPowerState[i] => outputStatus'.highPowerState[i] ]_vars

\* round(humidity / 100 * 180) for a whole humidity, halves rounded up.
RoundedAngle(h) ==
    CHOOSE a \in 0..ServoFullScale :
        /\ 200 * a - 2 * ServoFullScale * h <= 100
        /\ 200 * a - 2 * ServoFullScale * h > -100

\* C18: every tick whose read succeeded commands the servo, whatever became
\* of its other actuator calls; the angle is round(humidity / 100 * 180),
\* which for every humidity in 0..100 lies in 0..180 and is accepted
\* (humidity 50 gives 90); a servo call that succeeded records that angle.
ServoEveryTick ==
    [][ /\ \A t \in Slots :
             /\ (ticks[t].pc \in ActuatorStages /\ ticks'[t].pc = "free") => ticks[t].pc = "servo"
             /\ (Ends(t, "servo") /\ obs'.result = "ok") =>
                    outputStatus'.servoPositions[1] = RoundedAngle(ticks[t].data.humidity)
        /\ \A h \in 0..100 :
             LET angle == humidityAngle(Reading(20, h, 1000, 80))
             IN  angle = RoundedAngle(h) /\ ValidServoAngle(angle)
        /\ humidityAngle(Reading(20, 50, 1000, 80)) = 90 ]_vars

Red == << 255, 0, 0 >>

\* C19: after a successful LED write slot i shows the colour of alert i,
\* red for a danger and another colour (amber) for a warning, and every
\* slot past the alerts is dark: nothing an earlier write lit stays lit, and
\* with no alerts the strip is dark.
LedsReconciled ==
    ledResult = "ok" =>
        /\ \A i \in 1..Len(ledAlerts) :
              /\ ledPixels[i - 1] # Off
              /\ ledAlerts[i].level = "danger" => ledPixels[i - 1] = Red
              /\ ledAlerts[i].level = "warning" => ledPixels[i - 1] # Red
        /\ \A p \in Pixels : p >= Len(ledAlerts) => ledPixels[p] = Off

CallFailures == {"displayFailed", "ledsClearing", "ledsFailed", "relayFailed", "servoFailed"}

\* C20: an actuator call that failed is tried again on its own: its first
\* failure neither ends the tick's actuation nor is reported as an error, so
\* that a later attempt can succeed and update the actuator's field.
ActuatorCallRetried ==
    [][ \A t \in Slots :
          (ticks[t].pc \in ActuatorStages /\ ticks'[t] # ticks[t] /\ obs'.result \in CallFailures)
             => /\ ticks'[t].pc = ticks[t].pc
                /\ \A i \in 1..Len(obs'.emits) : obs'.emits[i] # "error" ]_vars

\* C21: updateOutputs run a second time with the alerts and the reading of
\* the run before it, every actuator call succeeding, leaves the actuator
\* state the first run left; a successful run leaves both flags set, the
\* servo at the angle of the reading, and relay 0 on if there is an
\* airQuality alert.
ReconcileIdempotent ==
    [][ /\ rcRuns' = 2 => (rcPrev' = rcState /\ rcState' = rcState)
        /\ rcRuns' >= 1 =>
              /\ rcState'.displayActive /\ rcState'.ledsActive
              /\ rcState'.servoPositions[1] = humidityAngle(rcInput'.data)
              /\ HasAirQualityAlert(rcInput'.alerts) => rcState'.highPowerState[1] ]_vars

\* C21 witness: a second run with an airQuality alert and humidity 80, after
\* a first run that switched the relay on and moved the servo.
SecondRunSeen ==
    /\ rcRuns = 2
    /\ HasAirQualityAlert(rcInput.alerts)
    /\ rcState.highPowerState[1]
    /\ rcState.servoPositions[1] = 144

\* C22: stopMonitoring called with no timer held (the loop idle, or a stop
\* right after a stop) raises no error of its own and leaves the controller
\* idle with no timer scheduled, as one call does; and a startMonitoring
\* called with no timer held is not rejected.
StopIdempotent ==
    [][ /\ (pendingStops' > pendingStops /\ monitoringInterval = 0) =>
              /\ obs'.result = "pending"
              /\ monitoringInterval' = 0
              /\ timers' = {}
        /\ (Len(pendingStarts') = Len(pendingStarts) /\ obs'.result = "AlreadyRunning") =>
              monitoringInterval # 0 ]_vars

\* C23: the alerts of a tick are those of its reading under the thresholds
\* held when the tick started: an updateThresholds while the read is pending
\* does not change them.
ThresholdSnapshot ==
    [][ \A t \in Slots :
          (ticks[t].pc = "read" /\ ticks'[t].pc # "read" /\ obs'.result = "ok") =>
              \E d \in Readings :
                  /\ alerts' = checkConditions(d, ticks[t].started)
                  /\ ticks'[t].pc = "display" =>
                        (ticks'[t].data = d /\ ticks'[t].alerts = alerts') ]_vars

\* The order of the awaits of a tick.
StageRank(pc) ==
    CASE pc = "read" -> 1
      [] pc = "display" -> 2
      [] pc = "leds" -> 3
      [] pc = "ledsClear" -> 4
      [] pc = "relay" -> 5
      [] pc = "servo" -> 6
      [] OTHER -> 0

\* C24: the stages of a tick follow one order.  A tick starts at its read;
\* this.alerts is written only by a step that completes a read, with the
\* alerts of that reading; the first actuator call is issued by that step,
\* with those alerts; a tick moves only forward through its actuator calls;
\* and metrics are recorded only by the step that settles the tick's last
\* actuator call, which leaves no call of the tick pending.
StageOrder ==
    [][ /\ \A t \in Slots :
             /\ (ticks[t].pc = "free" /\ ticks'[t].pc # "free") => ticks'[t].pc = "read"
             /\ (ticks'[t].pc \notin {"free", ticks[t].pc}) =>
                    StageRank(ticks'[t].pc) > StageRank(ticks[t].pc)
             /\ (ticks'[t].pc \in ActuatorStages /\ ticks[t].pc \notin ActuatorStages) =>
                    /\ ticks[t].pc = "read"
                    /\ ticks'[t].pc = "display"
                    /\ ticks'[t].data \in Readings
                    /\ ticks'[t].alerts = checkConditions(ticks'[t].data, thresholds)
                    /\ alerts' = ticks'[t].alerts
        /\ alerts' # alerts =>
              \E t \in Slots : ticks[t].pc = "read" /\ ticks'[t].pc # "read" /\ obs'.result = "ok"
        /\ (readingsTotal' # readingsTotal \/ obs'.metrics) =>
              /\ obs'.metrics
              /\ readingsTotal' = readingsTotal + 1
              /\ \E t \in Slots : ticks[t].pc \in ActuatorStages /\ ticks'[t].pc = "free" ]_vars

\* C24 witness: a tick recorded its metrics after its relay and servo calls
\* had succeeded.
FullTickSeen ==
    /\ obs.metrics
    /\ obs.result = "ok"
    /\ readingsTotal >= 1
    /\ outputStatus.displayActive /\ outputStatus.ledsActive
    /\ outputStatus.highPowerState[1]
    /\ outputStatus.servoPositions[1] = 144
    /\ Len(alerts) > 0

\* C25: the n-th wait of a run of a retry wrapper is baseDelay * n; there is
\* one wait after every failed attempt but the last of the run, none before
\* the first attempt and none after the attempt that ends the run, so a run
\* that exhausts maxRetries attempts has waited maxRetries - 1 times.
LinearBackoff ==
    /\ \A n \in 1..Len(rWaits) : rWaits[n] = rDelayMs * n
    /\ rPc = "waiting" => Len(rWaits) = rCalls
    /\ (rPc \in {"calling", "done"} /\ rCalls >= 1) => Len(rWaits) = rCalls - 1
    /\ rCalls = 0 => rWaits = << >>

\* C25 witness: withRetry with delayMs 250 gave up after three failed
\* attempts, having waited 250 and 500.
BackoffExhaustedSeen ==
    /\ rWrapper = "withRetry"
    /\ rPc = "done"
    /\ rResult.kind = "thrown"
    /\ rCalls = 3
    /\ rMaxRetries = 3
    /\ rWaits = << 250, 500 >>

\* C26: when a rateLimit call has completed with the storage working, the
\* entries stored for its key hold no timestamp older than the window start
\* of that call: the call itself removed the expired ones.
PrunedOnCall ==
    [][ \A c \in RateSlots :
          (rlCalls[c].pc # "free" /\ rlCalls'[c].pc = "free" /\ ~rlLast'.failed) =>
              \A i \in 1..Len(rlStore'[rlCalls[c].key]) :
                  rlStore'[rlCalls[c].key][i] >= rlCalls[c].now - rlWindow ]_vars

\* C27: whatever the subscribers of 'reading' and 'alerts' do when they are
\* notified, a tick whose read succeeded goes on to its actuator calls (and
\* so to its metrics), and the timers stay scheduled.
SubscribersCannotBreakTick ==
    [][ \A t \in Slots :
          (ticks[t].pc = "read" /\ ticks'[t].pc # "read" /\ obs'.result = "ok") =>
              /\ ticks'[t].pc = "display"
              /\ timers' = timers ]_vars

\* C28: under every interleaving of startMonitoring and stopMonitoring calls
\* at most one interval timer is scheduled, and a scheduled timer is the one
\* held in monitoringInterval, which stopMonitoring cancels.
NoOrphanTimer ==
    /\ Cardinality(timers) <= 1
    /\ \A tm \in timers : tm.id = monitoringInterval

\* C29: for every key, the timestamps recorded by allowed calls that fall
\* inside one window (the window that ends at any of them) never number
\* more than the limit, however the calls interleave.
LimitPerWindow ==
    \A k \in Keys : \A i \in 1..Len(rlStore[k]) :
        Cardinality({ j \in 1..Len(rlStore[k]) :
                        /\ rlStore[k][j] <= rlStore[k][i]
                        /\ rlStore[k][j] >= rlStore[k][i] - rlWindow }) <= rlLimit

\* C30: a removed session stays removed.  No record exists under a token
\* whose record has been deleted; a validateSession that reads the store
\* after the deletion is not accepted (401 with the storage working); and
\* validateSession goes on to accept only a record whose expiresAt is not
\* earlier than the current time.
RemovedStaysRemoved ==
    [][ /\ \A tok \in ssRemoved' : ~ssStore'[tok].exists
        /\ \A c \in ValidateSlots :
              /\ (ssCalls[c].pc = "read" /\ ssCalls'[c].pc # "read"
                     /\ ssCalls[c].token \in ssRemoved) =>
                    (ssCalls'[c].pc = "free" /\ ssLast'.status \in {401, 500})
              /\ (ssCalls[c].pc = "read" /\ ssCalls'[c].pc = "update") =>
                    ssStore[ssCalls[c].token].expiresAt >= SessionNow ]_vars

====
